---- MODULE Spec2Model ----
(***************************************************************************)
(* Record-access layer of MtechGuy/Advance-web-Test-1: the Product Store   *)
(* and the Review Store (internal/data, src/unnamed/part_001), the schema  *)
(* (src/unnamed/part_000) and the HTTP handlers that call the stores       *)
(* (src/cmd/api/review.go).                                                *)
(*                                                                         *)
(* Reading of the source.  Every statement of both stores is issued        *)
(* against the one table `comments` (columns id, content, author,          *)
(* version); the tables `products` and `reviews` of the schema are never   *)
(* read or written by the Go code.  The handlers build data.Review values  *)
(* with the fields ProductID, Rating and ReviewText, which the stores      *)
(* neither validate nor persist: the model carries them on the struct and  *)
(* leaves every field a statement does not assign at its Go zero value.    *)
(* Timestamps are not modelled.                                            *)
(***************************************************************************)
EXTENDS Integers, Sequences, FiniteSets, TLC

(* ------------------------------ bounds --------------------------------- *)

\* Number of identities the bigserial sequence may hand out in a run.
MaxId == 2

\* Updates are taken while the stored version is below this cap.
MaxVersion == 3

\* Concurrent requests in flight (one goroutine each).
Requests == {1, 2}

(* ----------------------- Go values used by the code --------------------- *)

\* A *T field of a decode target: <<>> is the nil pointer, <<v>> points at v.
Nil == <<>>

Ptr(v) == <<v>>

Deref(p) == p[1]

\* errors the stores return
NoErr == "nil"

ErrRecordNotFound == "ErrRecordNotFound"

SqlErrNoRows == "sql.ErrNoRows"

SqlErrUndefinedColumn == "pq: column does not exist"

SqlErrNegativeLimit == "pq: LIMIT / OFFSET must not be negative"

\* strings longer than the validator's limits
Long26 == "abcdefghijklmnopqrstuvwxyz"

Long101 == "abcdefghijklmnopqrstuvwxyzabcdefghijklmnopqrstuvwxyzabcdefghijklmnopqrstuvwxyzabcdefghijklmnopqrstuvw"

\* limits of ValidateProduct / ValidateReview
ContentMaxBytes == 100

AuthorMaxBytes == 25

\* zero values of data.Product and data.Review
ZeroProduct == [ID |-> 0, Content |-> "", Author |-> "", Version |-> 0]

ZeroReview == [ID |-> 0, Content |-> "", Author |-> "", Version |-> 0,
               ProductID |-> 0, Rating |-> 0, ReviewText |-> ""]

(* ------------------------------ state ----------------------------------- *)

VARIABLES
    comments,             \* rows of table comments: [id, content, author, version]
    nextId,               \* next value of the bigserial sequence of comments.id
    products,             \* rows of table products (schema): [product_id]
    reviews,              \* rows of table reviews (schema): [review_id, product_id]
    incomingReviewData,   \* package-level decode target of createReviewHandler
    incomingProductData,  \* package-level decode target of updateProductHandler
    req,                  \* per request: the handler in flight and its locals
    last,                 \* the store call made last by a direct caller of a store
    router                \* the route table routes() has built so far

vars == <<comments, nextId, products, reviews, incomingReviewData,
          incomingProductData, req, last, router>>

(* --------------------------- table comments ----------------------------- *)

\* version integer NOT NULL DEFAULT 1
DefaultVersion == 1

\* SELECT ... FROM comments WHERE id = $1
RowsById(tbl, id) == {row \in tbl : row.id = id}


(* --------------------- Product Store (part_001:198-407) ------------------ *)

\* ValidateProduct: the validator's error map is empty
ValidateProduct(product) ==
    /\ product.Content # ""
    /\ product.Author # ""
    /\ Len(product.Content) <= ContentMaxBytes
    /\ Len(product.Author) <= AuthorMaxBytes

\* InsertProduct with its two arguments in the other order
InsertProductSwapped(tbl, seq, product) ==
    LET row == [id |-> seq, content |-> product.Author,
                author |-> product.Content, version |-> DefaultVersion]
    IN  [tbl |-> tbl \cup {row}, seq |-> seq + 1,
         ent |-> [product EXCEPT !.ID = row.id, !.Version = row.version],
         err |-> NoErr, stmts |-> <<"INSERT">>]

\* INSERT INTO comments (content, author) VALUES ($1, $2)
\* RETURNING id, created_at, version
InsertProduct(tbl, seq, product) ==
    LET row == [id |-> seq, content |-> product.Content,
                author |-> product.Author, version |-> DefaultVersion]
    IN  [tbl |-> tbl \cup {row}, seq |-> seq + 1,
         ent |-> [product EXCEPT !.ID = row.id, !.Version = row.version],
         err |-> NoErr, stmts |-> <<"INSERT">>]

\* id < 1 returns before any query; sql.ErrNoRows becomes ErrRecordNotFound
GetProduct(tbl, seq, id) ==
    IF id < 1
    THEN [tbl |-> tbl, seq |-> seq, ent |-> ZeroProduct,
          err |-> ErrRecordNotFound, stmts |-> <<>>]
    ELSE LET rows == RowsById(tbl, id)
             scanErr == IF rows = {} THEN SqlErrNoRows ELSE NoErr
         IN  IF scanErr = SqlErrNoRows
             THEN [tbl |-> tbl, seq |-> seq, ent |-> ZeroProduct,
                   err |-> ErrRecordNotFound, stmts |-> <<"SELECT">>]
             ELSE LET row == CHOOSE x \in rows : TRUE
                  IN  [tbl |-> tbl, seq |-> seq,
                       ent |-> [ID |-> row.id, Content |-> row.content,
                                Author |-> row.author, Version |-> row.version],
                       err |-> NoErr, stmts |-> <<"SELECT">>]

\* UpdateProduct setting the version from the entity it was handed
\* (SET version = $4 + 1) instead of from the row
UpdateProductVersionOfEntity(tbl, seq, product) ==
    LET rows == RowsById(tbl, product.ID)
        upd(row) == [row EXCEPT !.content = product.Content,
                                !.author = product.Author,
                                !.version = product.Version + 1]
    IN  IF rows = {}
        THEN [tbl |-> tbl, seq |-> seq, ent |-> product,
              err |-> SqlErrNoRows, stmts |-> <<"UPDATE">>]
        ELSE LET row == CHOOSE x \in rows : TRUE
             IN  [tbl |-> (tbl \ rows) \cup {upd(x) : x \in rows}, seq |-> seq,
                  ent |-> [product EXCEPT !.Version = upd(row).version],
                  err |-> NoErr, stmts |-> <<"UPDATE">>]

\* UPDATE comments SET content = $1, author = $2, version = version + 1
\* WHERE id = $3 RETURNING version; Scan's error is returned as it is
UpdateProduct(tbl, seq, product) ==
    LET rows == RowsById(tbl, product.ID)
        upd(row) == [row EXCEPT !.content = product.Content,
                                !.author = product.Author,
                                !.version = row.version + 1]
    IN  IF rows = {}
        THEN [tbl |-> tbl, seq |-> seq, ent |-> product,
              err |-> SqlErrNoRows, stmts |-> <<"UPDATE">>]
        ELSE LET row == CHOOSE x \in rows : TRUE
             IN  [tbl |-> (tbl \ rows) \cup {upd(x) : x \in rows}, seq |-> seq,
                  ent |-> [product EXCEPT !.Version = upd(row).version],
                  err |-> NoErr, stmts |-> <<"UPDATE">>]

\* DELETE FROM comments WHERE id = $1; no row affected is ErrRecordNotFound
DeleteProduct(tbl, seq, id) ==
    IF id < 1
    THEN [tbl |-> tbl, seq |-> seq, ent |-> ZeroProduct,
          err |-> ErrRecordNotFound, stmts |-> <<>>]
    ELSE LET rowsAffected == Cardinality(RowsById(tbl, id))
         IN  [tbl |-> tbl \ RowsById(tbl, id), seq |-> seq, ent |-> ZeroProduct,
              err |-> IF rowsAffected = 0 THEN ErrRecordNotFound ELSE NoErr,
              stmts |-> <<"DELETE">>]

(* ---------------------- Review Store (part_001:1-196) -------------------- *)

\* ValidateReview: content and author only; Rating is not looked at
ValidateReview(review) ==
    /\ review.Content # ""
    /\ review.Author # ""
    /\ Len(review.Content) <= ContentMaxBytes
    /\ Len(review.Author) <= AuthorMaxBytes

\* INSERT INTO comments (content, author) VALUES ($1, $2)
\* RETURNING id, created_at, version
InsertReview(tbl, seq, review) ==
    LET row == [id |-> seq, content |-> review.Content,
                author |-> review.Author, version |-> DefaultVersion]
    IN  [tbl |-> tbl \cup {row}, seq |-> seq + 1,
         ent |-> [review EXCEPT !.ID = row.id, !.Version = row.version],
         err |-> NoErr, stmts |-> <<"INSERT">>]

\* GetReview without the id < 1 return
GetReviewNoGuard(tbl, seq, id) ==
    LET rows == RowsById(tbl, id)
    IN  IF rows = {}
        THEN [tbl |-> tbl, seq |-> seq, ent |-> ZeroReview,
              err |-> ErrRecordNotFound, stmts |-> <<"SELECT">>]
        ELSE LET row == CHOOSE x \in rows : TRUE
             IN  [tbl |-> tbl, seq |-> seq,
                  ent |-> [ZeroReview EXCEPT !.ID = row.id,
                                             !.Content = row.content,
                                             !.Author = row.author,
                                             !.Version = row.version],
                  err |-> NoErr, stmts |-> <<"SELECT">>]

\* id < 1 returns before any query; sql.ErrNoRows becomes ErrRecordNotFound
GetReview(tbl, seq, id) ==
    IF id < 1
    THEN [tbl |-> tbl, seq |-> seq, ent |-> ZeroReview,
          err |-> ErrRecordNotFound, stmts |-> <<>>]
    ELSE LET rows == RowsById(tbl, id)
             scanErr == IF rows = {} THEN SqlErrNoRows ELSE NoErr
         IN  IF scanErr = SqlErrNoRows
             THEN [tbl |-> tbl, seq |-> seq, ent |-> ZeroReview,
                   err |-> ErrRecordNotFound, stmts |-> <<"SELECT">>]
             ELSE LET row == CHOOSE x \in rows : TRUE
                  IN  [tbl |-> tbl, seq |-> seq,
                       ent |-> [ZeroReview EXCEPT !.ID = row.id,
                                                  !.Content = row.content,
                                                  !.Author = row.author,
                                                  !.Version = row.version],
                       err |-> NoErr, stmts |-> <<"SELECT">>]

\* UpdateReview without "version = version + 1" in its SET list
UpdateReviewKeepsVersion(tbl, seq, review) ==
    LET rows == RowsById(tbl, review.ID)
        upd(row) == [row EXCEPT !.content = review.Content,
                                !.author = review.Author]
    IN  IF rows = {}
        THEN [tbl |-> tbl, seq |-> seq, ent |-> review,
              err |-> SqlErrNoRows, stmts |-> <<"UPDATE">>]
        ELSE LET row == CHOOSE x \in rows : TRUE
             IN  [tbl |-> (tbl \ rows) \cup {upd(x) : x \in rows}, seq |-> seq,
                  ent |-> [review EXCEPT !.Version = upd(row).version],
                  err |-> NoErr, stmts |-> <<"UPDATE">>]

\* UPDATE comments SET content = $1, author = $2, version = version + 1
\* WHERE id = $3 RETURNING version; Scan's error is returned as it is
UpdateReview(tbl, seq, review) ==
    LET rows == RowsById(tbl, review.ID)
        upd(row) == [row EXCEPT !.content = review.Content,
                                !.author = review.Author,
                                !.version = row.version + 1]
    IN  IF rows = {}
        THEN [tbl |-> tbl, seq |-> seq, ent |-> review,
              err |-> SqlErrNoRows, stmts |-> <<"UPDATE">>]
        ELSE LET row == CHOOSE x \in rows : TRUE
             IN  [tbl |-> (tbl \ rows) \cup {upd(x) : x \in rows}, seq |-> seq,
                  ent |-> [review EXCEPT !.Version = upd(row).version],
                  err |-> NoErr, stmts |-> <<"UPDATE">>]

\* DeleteReview without the rowsAffected == 0 return
DeleteReviewNoRowsCheck(tbl, seq, id) ==
    IF id < 1
    THEN [tbl |-> tbl, seq |-> seq, ent |-> ZeroReview,
          err |-> ErrRecordNotFound, stmts |-> <<>>]
    ELSE [tbl |-> tbl \ RowsById(tbl, id), seq |-> seq, ent |-> ZeroReview,
          err |-> NoErr, stmts |-> <<"DELETE">>]

\* DELETE FROM comments WHERE id = $1; no row affected is ErrRecordNotFound
DeleteReview(tbl, seq, id) ==
    IF id < 1
    THEN [tbl |-> tbl, seq |-> seq, ent |-> ZeroReview,
          err |-> ErrRecordNotFound, stmts |-> <<>>]
    ELSE LET rowsAffected == Cardinality(RowsById(tbl, id))
         IN  [tbl |-> tbl \ RowsById(tbl, id), seq |-> seq, ent |-> ZeroReview,
              err |-> IF rowsAffected = 0 THEN ErrRecordNotFound ELSE NoErr,
              stmts |-> <<"DELETE">>]


(* ------------------ filters (internal/data, not in src/) ----------------- *)

\* limits of ValidateFilters
MaxPage == 10000000

MaxPageSize == 100

\* A sort key is the sequence of its parts: <<"-", "id">> is "-id".
ProductSortSafeList == {<<"id">>, <<"author">>, <<"-", "id">>, <<"-", "author">>}

ReviewSortSafeList ==
    {<<"review_id">>, <<"author">>, <<"-", "review_id">>, <<"-", "author">>}

\* ValidateFilters: the validator's error map is empty
ValidateFilters(f) ==
    /\ f.Page >= 1
    /\ f.Page <= MaxPage
    /\ f.PageSize >= 1
    /\ f.PageSize <= MaxPageSize
    /\ f.Sort \in f.SortSafeList

\* sortColumn: the key without its leading "-"; a key outside the safelist panics
sortColumn(f) ==
    IF f.Sort \in f.SortSafeList
    THEN IF Head(f.Sort) = "-" THEN Head(Tail(f.Sort)) ELSE Head(f.Sort)
    ELSE "panic: unsafe sort parameter"

\* sortDirection: DESC for a leading "-", ASC otherwise
sortDirection(f) == IF Head(f.Sort) = "-" THEN "DESC" ELSE "ASC"

limit(f) == f.PageSize

offset(f) == (f.Page - 1) * f.PageSize

ZeroMetadata == [CurrentPage |-> 0, PageSize |-> 0, FirstPage |-> 0,
                 LastPage |-> 0, TotalRecords |-> 0]

\* calculateMetaData: empty for no record, else last page = ceil(total / size)
calculateMetaData(totalRecords, page, pageSize) ==
    IF totalRecords = 0
    THEN ZeroMetadata
    ELSE [CurrentPage |-> page, PageSize |-> pageSize, FirstPage |-> 1,
          LastPage |-> (totalRecords + pageSize - 1) \div pageSize,
          TotalRecords |-> totalRecords]

(* ------------------------ GetAll (part_001:154-196, 351-407) ------------- *)

\* columns of table comments that the stores' statements name
CommentsColumns == {"id", "created_at", "content", "author", "version"}

\* collation of the text values the model stores
TextOrder == <<"a", "b", "x", "y">>

TextRank(s) == CHOOSE i \in 1..Len(TextOrder) : TextOrder[i] = s

\* to_tsvector('simple', col) @@ plainto_tsquery('simple', $n) OR $n = '',
\* for one-word column values and one-word terms
Matches(doc, term) == term = "" \/ term = doc

\* the value ORDER BY compares
SortKey(row, col) ==
    CASE col = "id" -> row.id
      [] col = "version" -> row.version
      [] col = "author" -> TextRank(row.author)
      [] col = "content" -> TextRank(row.content)
      [] OTHER -> 0

\* ORDER BY <col> <dir>, id ASC
RowBefore(col, dir, a, b) ==
    LET ka == SortKey(a, col)
        kb == SortKey(b, col)
    IN  \/ IF dir = "DESC" THEN ka > kb ELSE ka < kb
        \/ ka = kb /\ a.id < b.id

RECURSIVE SetToSeq(_)
SetToSeq(S) ==
    IF S = {} THEN <<>>
    ELSE LET x == CHOOSE y \in S : TRUE IN <<x>> \o SetToSeq(S \ {x})

Min(a, b) == IF a < b THEN a ELSE b

\* GetAll with LIMIT $4 OFFSET $3
GetAllLimitOffsetSwapped(tbl, seq, content, author, f) ==
    LET col == sortColumn(f)
        dir == sortDirection(f)
        query == [orderBy |-> <<col, dir>>, args |-> <<content, author, limit(f), offset(f)>>]
        matching == {row \in tbl : Matches(row.content, content)
                                    /\ Matches(row.author, author)}
        ordered == SortSeq(SetToSeq(matching),
                           LAMBDA a, b : RowBefore(col, dir, a, b))
        page == SubSeq(ordered, limit(f) + 1,
                       Min(limit(f) + offset(f), Len(ordered)))
        totalRecords == IF page = <<>> THEN 0 ELSE Len(ordered)
    IN  IF col \notin CommentsColumns
        THEN [tbl |-> tbl, seq |-> seq, ent |-> <<>>, metadata |-> ZeroMetadata,
              totalRecords |-> 0,
              err |-> SqlErrUndefinedColumn, stmts |-> <<"SELECT">>, query |-> query]
        ELSE IF limit(f) < 0 \/ offset(f) < 0
        THEN [tbl |-> tbl, seq |-> seq, ent |-> <<>>, metadata |-> ZeroMetadata,
              totalRecords |-> 0,
              err |-> SqlErrNegativeLimit, stmts |-> <<"SELECT">>, query |-> query]
        ELSE [tbl |-> tbl, seq |-> seq, ent |-> page,
              metadata |-> calculateMetaData(totalRecords, f.Page, f.PageSize),
              totalRecords |-> totalRecords,
              err |-> NoErr, stmts |-> <<"SELECT">>, query |-> query]

\* GetAll handing calculateMetaData the page size for the page
GetAllPageSizeSwapped(tbl, seq, content, author, f) ==
    LET col == sortColumn(f)
        dir == sortDirection(f)
        query == [orderBy |-> <<col, dir>>, args |-> <<content, author, limit(f), offset(f)>>]
        matching == {row \in tbl : Matches(row.content, content)
                                    /\ Matches(row.author, author)}
        ordered == SortSeq(SetToSeq(matching),
                           LAMBDA a, b : RowBefore(col, dir, a, b))
        page == SubSeq(ordered, offset(f) + 1,
                       Min(offset(f) + limit(f), Len(ordered)))
        totalRecords == IF page = <<>> THEN 0 ELSE Len(ordered)
    IN  IF col \notin CommentsColumns
        THEN [tbl |-> tbl, seq |-> seq, ent |-> <<>>, metadata |-> ZeroMetadata,
              totalRecords |-> 0,
              err |-> SqlErrUndefinedColumn, stmts |-> <<"SELECT">>, query |-> query]
        ELSE IF limit(f) < 0 \/ offset(f) < 0
        THEN [tbl |-> tbl, seq |-> seq, ent |-> <<>>, metadata |-> ZeroMetadata,
              totalRecords |-> 0,
              err |-> SqlErrNegativeLimit, stmts |-> <<"SELECT">>, query |-> query]
        ELSE [tbl |-> tbl, seq |-> seq, ent |-> page,
              metadata |-> calculateMetaData(totalRecords, f.PageSize, f.Page),
              totalRecords |-> totalRecords,
              err |-> NoErr, stmts |-> <<"SELECT">>, query |-> query]

\* GetAll with ORDER BY %s %s, id DESC
GetAllIdDescending(tbl, seq, content, author, f) ==
    LET col == sortColumn(f)
        dir == sortDirection(f)
        query == [orderBy |-> <<col, dir>>, args |-> <<content, author, limit(f), offset(f)>>]
        matching == {row \in tbl : Matches(row.content, content)
                                    /\ Matches(row.author, author)}
        ordered == SortSeq(SetToSeq(matching),
                           LAMBDA a, b :
                               \/ IF dir = "DESC"
                                  THEN SortKey(a, col) > SortKey(b, col)
                                  ELSE SortKey(a, col) < SortKey(b, col)
                               \/ SortKey(a, col) = SortKey(b, col) /\ a.id > b.id)
        page == SubSeq(ordered, offset(f) + 1,
                       Min(offset(f) + limit(f), Len(ordered)))
        totalRecords == IF page = <<>> THEN 0 ELSE Len(ordered)
    IN  IF col \notin CommentsColumns
        THEN [tbl |-> tbl, seq |-> seq, ent |-> <<>>, metadata |-> ZeroMetadata,
              totalRecords |-> 0,
              err |-> SqlErrUndefinedColumn, stmts |-> <<"SELECT">>, query |-> query]
        ELSE IF limit(f) < 0 \/ offset(f) < 0
        THEN [tbl |-> tbl, seq |-> seq, ent |-> <<>>, metadata |-> ZeroMetadata,
              totalRecords |-> 0,
              err |-> SqlErrNegativeLimit, stmts |-> <<"SELECT">>, query |-> query]
        ELSE [tbl |-> tbl, seq |-> seq, ent |-> page,
              metadata |-> calculateMetaData(totalRecords, f.Page, f.PageSize),
              totalRecords |-> totalRecords,
              err |-> NoErr, stmts |-> <<"SELECT">>, query |-> query]

\* the one SELECT of GetAll: filter, COUNT(*) OVER(), ORDER BY, LIMIT/OFFSET;
\* totalRecords is scanned from the rows returned and stays 0 when there is none;
\* the server refuses a column it does not know and a negative LIMIT or OFFSET
GetAll(tbl, seq, content, author, f) ==
    LET col == sortColumn(f)
        dir == sortDirection(f)
        query == [orderBy |-> <<col, dir>>, args |-> <<content, author, limit(f), offset(f)>>]
        matching == {row \in tbl : Matches(row.content, content)
                                    /\ Matches(row.author, author)}
        ordered == SortSeq(SetToSeq(matching),
                           LAMBDA a, b : RowBefore(col, dir, a, b))
        page == SubSeq(ordered, offset(f) + 1,
                       Min(offset(f) + limit(f), Len(ordered)))
        totalRecords == IF page = <<>> THEN 0 ELSE Len(ordered)
    IN  IF col \notin CommentsColumns
        THEN [tbl |-> tbl, seq |-> seq, ent |-> <<>>, metadata |-> ZeroMetadata,
              totalRecords |-> 0,
              err |-> SqlErrUndefinedColumn, stmts |-> <<"SELECT">>, query |-> query]
        ELSE IF limit(f) < 0 \/ offset(f) < 0
        THEN [tbl |-> tbl, seq |-> seq, ent |-> <<>>, metadata |-> ZeroMetadata,
              totalRecords |-> 0,
              err |-> SqlErrNegativeLimit, stmts |-> <<"SELECT">>, query |-> query]
        ELSE [tbl |-> tbl, seq |-> seq, ent |-> page,
              metadata |-> calculateMetaData(totalRecords, f.Page, f.PageSize),
              totalRecords |-> totalRecords,
              err |-> NoErr, stmts |-> <<"SELECT">>, query |-> query]

GetAllProducts(tbl, seq, content, author, f) == GetAll(tbl, seq, content, author, f)

GetAllReviews(tbl, seq, content, author, f) == GetAll(tbl, seq, content, author, f)

\* ProductExists(id): whether the Product Store holds a row with this id. Like
\* every other method of ProductModel it is taken to query table comments.
ProductExists(tbl, seq, id) ==
    [tbl |-> tbl, seq |-> seq, ent |-> RowsById(tbl, id) # {}, err |-> NoErr,
     stmts |-> <<"SELECT">>]

(* --------------------------- request inputs ----------------------------- *)

\* readIDParam(r): the :id of the URL, or an error when it is no integer.
ReadIDParams ==
    {[id |-> 0, err |-> "invalid id parameter"]}
        \cup {[id |-> i, err |-> NoErr] : i \in 0..MaxId}

\* a body readJSON rejects
Malformed == [malformed |-> TRUE]

\* bodies of POST (create product): the local decode target has string fields,
\* a key the body leaves out stays ""
CreateProductBodies ==
    [malformed : {FALSE}, Content : {"a", "b"}, Author : {"x", "y"}]
        \cup {[malformed |-> FALSE, Content |-> "", Author |-> "x"],
              [malformed |-> FALSE, Content |-> "a", Author |-> ""],
              [malformed |-> FALSE, Content |-> Long101, Author |-> "x"],
              [malformed |-> FALSE, Content |-> "a", Author |-> Long26],
              Malformed}

\* bodies of PATCH (update product): a key the body leaves out is Nil
UpdateProductBodies ==
    {[malformed |-> FALSE, Content |-> Ptr("b"), Author |-> Nil],
     [malformed |-> FALSE, Content |-> Nil, Author |-> Ptr("y")],
     [malformed |-> FALSE, Content |-> Ptr(""), Author |-> Nil],
     Malformed}

\* bodies of PATCH (update review)
UpdateReviewBodies ==
    {[malformed |-> FALSE, Author |-> Ptr("y"), Rating |-> Ptr(3), ReviewText |-> Ptr("t")],
     [malformed |-> FALSE, Author |-> Nil, Rating |-> Ptr(6), ReviewText |-> Nil],
     [malformed |-> FALSE, Author |-> Ptr(""), Rating |-> Nil, ReviewText |-> Nil],
     [malformed |-> FALSE, Author |-> Ptr(Long26), Rating |-> Ptr(0), ReviewText |-> Nil],
     Malformed}

\* bodies of POST (create review)
CreateReviewBodies ==
    {[malformed |-> FALSE, ProductID |-> Ptr(1), Author |-> Ptr("x"),
      Rating |-> Ptr(3), ReviewText |-> Ptr("t")],
     [malformed |-> FALSE, ProductID |-> Ptr(2), Author |-> Ptr("y"),
      Rating |-> Ptr(6), ReviewText |-> Ptr("t")],
     [malformed |-> FALSE, ProductID |-> Ptr(1), Author |-> Nil,
      Rating |-> Nil, ReviewText |-> Nil],
     [malformed |-> FALSE, ProductID |-> Nil, Author |-> Ptr("x"),
      Rating |-> Ptr(3), ReviewText |-> Ptr("t")],
     Malformed}

\* readJSON(w, r, &dst) on a well-formed body: every key of the body is stored
\* through dst, a field whose key the body leaves out keeps what dst held.
Decode(dst, body) ==
    [f \in DOMAIN dst |-> IF body[f] # Nil THEN body[f] ELSE dst[f]]

(* ------------------------------ requests -------------------------------- *)

Idle == [pc |-> "idle"]

\* one store call of a handler, as the handler saw it
Call(op, arg, res) == [op |-> op, arg |-> arg, err |-> res.err, stmts |-> res.stmts]

\* what one run of a handler (or of its last step) does: the response helper it
\* ends in, the store calls it made, the entity it puts in the envelope, and
\* the table and sequence it leaves
Outcome(status, calls, out, tbl, seq) ==
    [status |-> status, calls |-> calls, out |-> out, tbl |-> tbl, seq |-> seq]

\* the handler goes on to its next step
Continue(calls, out, tbl, seq) == Outcome("continue", calls, out, tbl, seq)

\* the run stays inside the bounds of the model
Bounded(o) ==
    /\ o.seq <= MaxId + 1
    /\ \A row \in o.tbl : row.version <= MaxVersion

(* --------------------- product handlers (review.go:360-605) -------------- *)

createProductOutcome(tbl, seq, body) ==
    IF body = Malformed
    THEN Outcome("badRequestResponse", <<>>, <<>>, tbl, seq)
    ELSE LET product == [ZeroProduct EXCEPT !.Content = body.Content,
                                           !.Author = body.Author]
         IN  IF ~ValidateProduct(product)
             THEN Outcome("failedValidationResponse", <<>>, <<>>, tbl, seq)
             ELSE LET res == InsertProduct(tbl, seq, product)
                      calls == <<Call("InsertProduct", product, res)>>
                  IN  IF res.err # NoErr
                      THEN Outcome("serverErrorResponse", calls, <<>>, res.tbl, res.seq)
                      ELSE Outcome("StatusCreated", calls, res.ent, res.tbl, res.seq)

createProductHandler(r) ==
    /\ req[r].pc = "idle"
    /\ \E body \in CreateProductBodies :
         LET o == createProductOutcome(comments, nextId, body)
         IN  /\ Bounded(o)
             /\ comments' = o.tbl
             /\ nextId' = o.seq
    /\ UNCHANGED <<products, reviews, incomingReviewData, incomingProductData,
                   req, last, router>>

displayProductOutcome(tbl, seq, p) ==
    IF p.err # NoErr
    THEN Outcome("notFoundResponse", <<>>, <<>>, tbl, seq)
    ELSE LET res == GetProduct(tbl, seq, p.id)
             calls == <<Call("GetProduct", p.id, res)>>
         IN  IF res.err # NoErr
             THEN Outcome(IF res.err = ErrRecordNotFound
                          THEN "notFoundResponse" ELSE "serverErrorResponse",
                          calls, <<>>, res.tbl, res.seq)
             ELSE Outcome("StatusOK", calls, res.ent, res.tbl, res.seq)

displayProductHandler(r) ==
    /\ req[r].pc = "idle"
    /\ \E p \in ReadIDParams :
         LET o == displayProductOutcome(comments, nextId, p)
         IN  /\ comments' = o.tbl
             /\ nextId' = o.seq
    /\ UNCHANGED <<products, reviews, incomingReviewData, incomingProductData,
                   req, last, router>>

deleteProductOutcome(tbl, seq, p) ==
    IF p.err # NoErr
    THEN Outcome("notFoundResponse", <<>>, <<>>, tbl, seq)
    ELSE LET res == DeleteProduct(tbl, seq, p.id)
             calls == <<Call("DeleteProduct", p.id, res)>>
         IN  IF res.err # NoErr
             THEN Outcome(IF res.err = ErrRecordNotFound
                          THEN "IDnotFound" ELSE "serverErrorResponse",
                          calls, <<>>, res.tbl, res.seq)
             ELSE Outcome("StatusOK", calls, <<>>, res.tbl, res.seq)

deleteProductHandler(r) ==
    /\ req[r].pc = "idle"
    /\ \E p \in ReadIDParams :
         LET o == deleteProductOutcome(comments, nextId, p)
         IN  /\ comments' = o.tbl
             /\ nextId' = o.seq
    /\ UNCHANGED <<products, reviews, incomingReviewData, incomingProductData,
                   req, last, router>>

\* updateProductHandler, lines 462-478: readIDParam and GetProduct
updateProductGetOutcome(tbl, seq, p) ==
    IF p.err # NoErr
    THEN Outcome("notFoundResponse", <<>>, <<>>, tbl, seq)
    ELSE LET res == GetProduct(tbl, seq, p.id)
             calls == <<Call("GetProduct", p.id, res)>>
         IN  IF res.err # NoErr
             THEN Outcome(IF res.err = ErrRecordNotFound
                          THEN "notFoundResponse" ELSE "serverErrorResponse",
                          calls, <<>>, res.tbl, res.seq)
             ELSE Continue(calls, res.ent, res.tbl, res.seq)

updateProductGet(r) ==
    /\ req[r].pc = "idle"
    /\ \E p \in ReadIDParams :
         LET o == updateProductGetOutcome(comments, nextId, p)
         IN  /\ comments' = o.tbl
             /\ nextId' = o.seq
             /\ req' = [req EXCEPT ![r] =
                          IF o.status = "continue"
                          THEN [pc |-> "updateProduct:readJSON", product |-> o.out,
                                read |-> o.out, calls |-> o.calls]
                          ELSE Idle]
    /\ UNCHANGED <<products, reviews, incomingReviewData, incomingProductData, last,
                   router>>

\* updateProductHandler, lines 480-485: readJSON into the package-level
\* incomingProductData
updateProductDecode(r) ==
    /\ req[r].pc = "updateProduct:readJSON"
    /\ \E body \in UpdateProductBodies :
         IF body = Malformed
         THEN /\ req' = [req EXCEPT ![r] = Idle]
              /\ UNCHANGED incomingProductData
         ELSE /\ incomingProductData' = Decode(incomingProductData, body)
              /\ req' = [req EXCEPT ![r] =
                           [pc |-> "updateProduct:merge", product |-> req[r].product,
                            read |-> req[r].read, calls |-> req[r].calls,
                            body |-> body]]
    /\ UNCHANGED <<comments, nextId, products, reviews, incomingReviewData, last,
                   router>>

\* updateProductHandler, lines 487-518: merge what incomingProductData holds
\* now, validate, UpdateProduct, respond
updateProductWriteOutcome(tbl, seq, incoming, rq) ==
    LET p0 == rq.product
        p1 == IF incoming.Content # Nil
              THEN [p0 EXCEPT !.Content = Deref(incoming.Content)] ELSE p0
        product == IF incoming.Author # Nil
                   THEN [p1 EXCEPT !.Author = Deref(incoming.Author)] ELSE p1
    IN  IF ~ValidateProduct(product)
        THEN Outcome("failedValidationResponse", rq.calls, <<>>, tbl, seq)
        ELSE LET res == UpdateProduct(tbl, seq, product)
                 calls == Append(rq.calls, Call("UpdateProduct", product, res))
             IN  IF res.err # NoErr
                 THEN Outcome("serverErrorResponse", calls, <<>>, res.tbl, res.seq)
                 ELSE Outcome("StatusOK", calls, res.ent, res.tbl, res.seq)

updateProductWrite(r) ==
    /\ req[r].pc = "updateProduct:merge"
    /\ LET o == updateProductWriteOutcome(comments, nextId, incomingProductData, req[r])
       IN  /\ Bounded(o)
           /\ comments' = o.tbl
           /\ nextId' = o.seq
    /\ req' = [req EXCEPT ![r] = Idle]
    /\ UNCHANGED <<products, reviews, incomingReviewData, incomingProductData, last,
                   router>>


(* ---------------------- review handlers (review.go:1-358) ---------------- *)

\* createReviewHandler, lines 25-30: readJSON into the package-level
\* incomingReviewData
createReviewDecode(r) ==
    /\ req[r].pc = "idle"
    /\ \E body \in CreateReviewBodies :
         IF body = Malformed
         THEN UNCHANGED <<incomingReviewData, req>>
         ELSE /\ incomingReviewData' = Decode(incomingReviewData, body)
              /\ req' = [req EXCEPT ![r] =
                           [pc |-> "createReview:ProductExists", body |-> body,
                            calls |-> <<>>]]
    /\ UNCHANGED <<comments, nextId, products, reviews, incomingProductData, last,
                   router>>

\* createReviewHandler, lines 32-47: product_id present, ProductExists
createReviewCheckOutcome(tbl, seq, incoming, rq) ==
    IF incoming.ProductID = Nil
    THEN Outcome("badRequestResponse", rq.calls, <<>>, tbl, seq)
    ELSE LET res == ProductExists(tbl, seq, Deref(incoming.ProductID))
             calls == Append(rq.calls,
                             Call("ProductExists", Deref(incoming.ProductID), res))
         IN  IF res.err # NoErr
             THEN Outcome("serverErrorResponse", calls, <<>>, res.tbl, res.seq)
             ELSE IF ~res.ent
                  THEN Outcome("PRIDnotFound", calls, <<>>, res.tbl, res.seq)
                  ELSE Continue(calls, <<>>, res.tbl, res.seq)

createReviewCheck(r) ==
    /\ req[r].pc = "createReview:ProductExists"
    /\ LET o == createReviewCheckOutcome(comments, nextId, incomingReviewData, req[r])
       IN  /\ comments' = o.tbl
           /\ nextId' = o.seq
           /\ req' = [req EXCEPT ![r] =
                        IF o.status = "continue"
                        THEN [pc |-> "createReview:insert", body |-> req[r].body,
                              calls |-> o.calls]
                        ELSE Idle]
    /\ UNCHANGED <<products, reviews, incomingReviewData, incomingProductData, last,
                   router>>

\* createReviewHandler, lines 49-88: build the review from what
\* incomingReviewData holds now, validate, InsertReview, respond. A nil
\* field dereferenced at lines 52-54 panics.
createReviewInsertOutcome(tbl, seq, incoming, rq) ==
    IF \/ incoming.Author = Nil
       \/ incoming.Rating = Nil
       \/ incoming.ReviewText = Nil
    THEN Outcome("panic: nil pointer dereference", rq.calls, <<>>, tbl, seq)
    ELSE LET review == [ZeroReview EXCEPT
                          !.ProductID = Deref(incoming.ProductID),
                          !.Author = Deref(incoming.Author),
                          !.Rating = Deref(incoming.Rating),
                          !.ReviewText = Deref(incoming.ReviewText)]
         IN  IF ~ValidateReview(review)
             THEN Outcome("failedValidationResponse", rq.calls, <<>>, tbl, seq)
             ELSE LET res == InsertReview(tbl, seq, review)
                      calls == Append(rq.calls, Call("InsertReview", review, res))
                  IN  IF res.err # NoErr
                      THEN Outcome("serverErrorResponse", calls, <<>>, res.tbl, res.seq)
                      ELSE Outcome("StatusCreated", calls, res.ent, res.tbl, res.seq)

createReviewInsert(r) ==
    /\ req[r].pc = "createReview:insert"
    /\ LET o == createReviewInsertOutcome(comments, nextId, incomingReviewData, req[r])
       IN  /\ Bounded(o)
           /\ comments' = o.tbl
           /\ nextId' = o.seq
    /\ req' = [req EXCEPT ![r] = Idle]
    /\ UNCHANGED <<products, reviews, incomingReviewData, incomingProductData, last,
                   router>>

displayReviewOutcome(tbl, seq, p) ==
    IF p.err # NoErr
    THEN Outcome("notFoundResponse", <<>>, <<>>, tbl, seq)
    ELSE LET res == GetReview(tbl, seq, p.id)
             calls == <<Call("GetReview", p.id, res)>>
         IN  IF res.err # NoErr
             THEN Outcome(IF res.err = ErrRecordNotFound
                          THEN "notFoundResponse" ELSE "serverErrorResponse",
                          calls, <<>>, res.tbl, res.seq)
             ELSE Outcome("StatusOK", calls, res.ent, res.tbl, res.seq)

displayReviewHandler(r) ==
    /\ req[r].pc = "idle"
    /\ \E p \in ReadIDParams :
         LET o == displayReviewOutcome(comments, nextId, p)
         IN  /\ comments' = o.tbl
             /\ nextId' = o.seq
    /\ UNCHANGED <<products, reviews, incomingReviewData, incomingProductData,
                   req, last, router>>

\* updateReviewHandler, lines 185-201: readIDParam and GetReview
updateReviewGetOutcome(tbl, seq, p) ==
    IF p.err # NoErr
    THEN Outcome("notFoundResponse", <<>>, <<>>, tbl, seq)
    ELSE LET res == GetReview(tbl, seq, p.id)
             calls == <<Call("GetReview", p.id, res)>>
         IN  IF res.err # NoErr
             THEN Outcome(IF res.err = ErrRecordNotFound
                          THEN "notFoundResponse" ELSE "serverErrorResponse",
                          calls, <<>>, res.tbl, res.seq)
             ELSE Continue(calls, res.ent, res.tbl, res.seq)

updateReviewGet(r) ==
    /\ req[r].pc = "idle"
    /\ \E p \in ReadIDParams :
         LET o == updateReviewGetOutcome(comments, nextId, p)
         IN  /\ comments' = o.tbl
             /\ nextId' = o.seq
             /\ req' = [req EXCEPT ![r] =
                          IF o.status = "continue"
                          THEN [pc |-> "updateReview:readJSON", review |-> o.out,
                                read |-> o.out, calls |-> o.calls]
                          ELSE Idle]
    /\ UNCHANGED <<products, reviews, incomingReviewData, incomingProductData, last,
                   router>>

\* updateReviewHandler, lines 203-250: readJSON into a local struct, merge,
\* validate, UpdateReview, respond
updateReviewWriteOutcome(tbl, seq, body, rq) ==
    IF body = Malformed
    THEN Outcome("badRequestResponse", rq.calls, <<>>, tbl, seq)
    ELSE LET r0 == rq.review
             r1 == IF body.Author # Nil
                   THEN [r0 EXCEPT !.Author = Deref(body.Author)] ELSE r0
             r2 == IF body.Rating # Nil
                   THEN [r1 EXCEPT !.Rating = Deref(body.Rating)] ELSE r1
             review == IF body.ReviewText # Nil
                       THEN [r2 EXCEPT !.ReviewText = Deref(body.ReviewText)] ELSE r2
         IN  IF ~ValidateReview(review)
             THEN Outcome("failedValidationResponse", rq.calls, <<>>, tbl, seq)
             ELSE LET res == UpdateReview(tbl, seq, review)
                      calls == Append(rq.calls, Call("UpdateReview", review, res))
                  IN  IF res.err # NoErr
                      THEN Outcome("serverErrorResponse", calls, <<>>, res.tbl, res.seq)
                      ELSE Outcome("StatusOK", calls, res.ent, res.tbl, res.seq)

updateReviewWrite(r) ==
    /\ req[r].pc = "updateReview:readJSON"
    /\ \E body \in UpdateReviewBodies :
         LET o == updateReviewWriteOutcome(comments, nextId, body, req[r])
         IN  /\ Bounded(o)
             /\ comments' = o.tbl
             /\ nextId' = o.seq
    /\ req' = [req EXCEPT ![r] = Idle]
    /\ UNCHANGED <<products, reviews, incomingReviewData, incomingProductData, last,
                   router>>

deleteReviewOutcome(tbl, seq, p) ==
    IF p.err # NoErr
    THEN Outcome("notFoundResponse", <<>>, <<>>, tbl, seq)
    ELSE LET res == DeleteReview(tbl, seq, p.id)
             calls == <<Call("DeleteReview", p.id, res)>>
         IN  IF res.err # NoErr
             THEN Outcome(IF res.err = ErrRecordNotFound
                          THEN "RIDnotFound" ELSE "serverErrorResponse",
                          calls, <<>>, res.tbl, res.seq)
             ELSE Outcome("StatusOK", calls, <<>>, res.tbl, res.seq)

deleteReviewHandler(r) ==
    /\ req[r].pc = "idle"
    /\ \E p \in ReadIDParams :
         LET o == deleteReviewOutcome(comments, nextId, p)
         IN  /\ comments' = o.tbl
             /\ nextId' = o.seq
    /\ UNCHANGED <<products, reviews, incomingReviewData, incomingProductData,
                   req, last, router>>

(* ---------------------------- list handlers --------------------------- *)

\* query strings of GET (list): page and page_size are integers already
ListSorts ==
    {<<"id">>, <<"-", "id">>, <<"author">>, <<"-", "author">>, <<"review_id">>,
     <<"content">>, <<"id; DROP TABLE comments">>}

ListQueries ==
    [content : {""}, author : {""}, page : {1}, page_size : {2}, sort : ListSorts]
        \cup {[content |-> "a", author |-> "x", page |-> 2, page_size |-> 1,
               sort |-> <<"-", "author">>],
              [content |-> "", author |-> "x", page |-> 0, page_size |-> 1,
               sort |-> <<"id">>],
              [content |-> "", author |-> "x", page |-> 1, page_size |-> MaxPageSize + 1,
               sort |-> <<"id">>]}

\* listProductHandler without the return after ValidateFilters
listProductOutcomeUnchecked(tbl, seq, q) ==
    LET f == [Page |-> q.page, PageSize |-> q.page_size, Sort |-> q.sort,
              SortSafeList |-> ProductSortSafeList]
        res == GetAllProducts(tbl, seq, q.content, q.author, f)
        calls == <<[op |-> "GetAllProducts", arg |-> f, err |-> res.err,
                    stmts |-> res.stmts, query |-> res.query]>>
    IN  IF res.err # NoErr
        THEN Outcome("serverErrorResponse", calls, <<>>, res.tbl, res.seq)
        ELSE Outcome("StatusOK", calls,
                     [rows |-> res.ent, metadata |-> res.metadata],
                     res.tbl, res.seq)

\* listProductHandler, lines 548-605
listProductOutcome(tbl, seq, q) ==
    LET f == [Page |-> q.page, PageSize |-> q.page_size, Sort |-> q.sort,
              SortSafeList |-> ProductSortSafeList]
    IN  IF ~ValidateFilters(f)
        THEN Outcome("failedValidationResponse", <<>>, <<>>, tbl, seq)
        ELSE LET res == GetAllProducts(tbl, seq, q.content, q.author, f)
                 calls == <<[op |-> "GetAllProducts", arg |-> f, err |-> res.err,
                             stmts |-> res.stmts, query |-> res.query]>>
             IN  IF res.err # NoErr
                 THEN Outcome("serverErrorResponse", calls, <<>>, res.tbl, res.seq)
                 ELSE Outcome("StatusOK", calls,
                              [rows |-> res.ent, metadata |-> res.metadata],
                              res.tbl, res.seq)

\* listReviewHandler, lines 280-324: it hands GetAllReviews the author term
\* and the filters, and no content term
listReviewOutcome(tbl, seq, q) ==
    LET f == [Page |-> q.page, PageSize |-> q.page_size, Sort |-> q.sort,
              SortSafeList |-> ReviewSortSafeList]
    IN  IF ~ValidateFilters(f)
        THEN Outcome("failedValidationResponse", <<>>, <<>>, tbl, seq)
        ELSE LET res == GetAllReviews(tbl, seq, "", q.author, f)
                 calls == <<[op |-> "GetAllReviews", arg |-> f, err |-> res.err,
                             stmts |-> res.stmts, query |-> res.query]>>
             IN  IF res.err # NoErr
                 THEN Outcome("serverErrorResponse", calls, <<>>, res.tbl, res.seq)
                 ELSE Outcome("StatusOK", calls,
                              [rows |-> res.ent, metadata |-> res.metadata],
                              res.tbl, res.seq)

listProductHandler(r) ==
    /\ req[r].pc = "idle"
    /\ \E q \in ListQueries :
         LET o == listProductOutcome(comments, nextId, q)
         IN  /\ comments' = o.tbl
             /\ nextId' = o.seq
    /\ UNCHANGED <<products, reviews, incomingReviewData, incomingProductData,
                   req, last, router>>

listReviewHandler(r) ==
    /\ req[r].pc = "idle"
    /\ \E q \in ListQueries :
         LET o == listReviewOutcome(comments, nextId, q)
         IN  /\ comments' = o.tbl
             /\ nextId' = o.seq
    /\ UNCHANGED <<products, reviews, incomingReviewData, incomingProductData,
                   req, last, router>>

(* ----------------- the stores under their direct callers ----------------- *)

\* content and author of the entities the callers hand to the stores
StoreTexts == {<<"a", "x">>, <<"b", "x">>, <<"b", "y">>}

\* entities that passed ValidateProduct / ValidateReview in a handler: the
\* ones a create handler builds ...
NewProducts ==
    {[ZeroProduct EXCEPT !.Content = t[1], !.Author = t[2]] : t \in StoreTexts}

NewReviews ==
    {[ZeroReview EXCEPT !.Content = t[1], !.Author = t[2], !.Rating = 3,
                        !.ReviewText = "t", !.ProductID = 1] : t \in StoreTexts}

\* ... and the ones an update handler read and merged; Update assigns Version
\* from RETURNING whatever it held
StoreProducts ==
    {[p EXCEPT !.ID = id, !.Version = DefaultVersion] :
        p \in NewProducts, id \in 1..MaxId}

StoreReviews ==
    {[p EXCEPT !.ID = id, !.Version = DefaultVersion] :
        p \in NewReviews, id \in 1..MaxId}

\* ids a caller may hand to Get and Delete
StoreIds == 0..MaxId

\* a caller runs one store operation and keeps what it returned
StoreCall(op, arg, res) ==
    /\ Bounded(res)
    /\ comments' = res.tbl
    /\ nextId' = res.seq
    /\ last' = [op |-> op, arg |-> arg, err |-> res.err, stmts |-> res.stmts,
                ent |-> res.ent]
    /\ UNCHANGED <<products, reviews, incomingReviewData, incomingProductData, req,
                   router>>

\* a caller sends one list request and keeps the response
ListCall(op, q, o) ==
    /\ comments' = o.tbl
    /\ nextId' = o.seq
    /\ last' = [op |-> op, arg |-> q, status |-> o.status, calls |-> o.calls,
                out |-> o.out]
    /\ UNCHANGED <<products, reviews, incomingReviewData, incomingProductData, req,
                   router>>

callListProducts ==
    \E q \in ListQueries :
        ListCall("listProductHandler", q, listProductOutcome(comments, nextId, q))

callListReviews ==
    \E q \in ListQueries :
        ListCall("listReviewHandler", q, listReviewOutcome(comments, nextId, q))

callInsertProduct ==
    \E product \in NewProducts :
        StoreCall("InsertProduct", product, InsertProduct(comments, nextId, product))

callGetProduct ==
    \E id \in StoreIds : StoreCall("GetProduct", id, GetProduct(comments, nextId, id))

callUpdateProduct ==
    \E product \in StoreProducts :
        StoreCall("UpdateProduct", product, UpdateProduct(comments, nextId, product))

callDeleteProduct ==
    \E id \in StoreIds :
        StoreCall("DeleteProduct", id, DeleteProduct(comments, nextId, id))

callInsertReview ==
    \E review \in NewReviews :
        StoreCall("InsertReview", review, InsertReview(comments, nextId, review))

callGetReview ==
    \E id \in StoreIds : StoreCall("GetReview", id, GetReview(comments, nextId, id))

callUpdateReview ==
    \E review \in StoreReviews :
        StoreCall("UpdateReview", review, UpdateReview(comments, nextId, review))

callDeleteReview ==
    \E id \in StoreIds :
        StoreCall("DeleteReview", id, DeleteReview(comments, nextId, id))

(* ------------------------------ behaviour ------------------------------- *)

(* ----------------------- route table (routes.go:10-35) ------------------- *)

\* the registrations of routes(), in the order the function makes them
RouteTable ==
    <<[method |-> "GET", path |-> "/v1/healthcheck", handler |-> "healthcheckHandler"],
      [method |-> "GET", path |-> "/v1/comments", handler |-> "listProductHandler"],
      [method |-> "POST", path |-> "/v1/comments", handler |-> "createProductHandler"],
      [method |-> "GET", path |-> "/v1/comments/:id", handler |-> "displayProductHandler"],
      [method |-> "PATCH", path |-> "/v1/comments/:id", handler |-> "updateProductHandler"],
      [method |-> "DELETE", path |-> "/v1/comments/:id", handler |-> "deleteProductHandler"],
      [method |-> "GET", path |-> "/v1/comments", handler |-> "listReviewHandler"],
      [method |-> "POST", path |-> "/v1/comments", handler |-> "createReviewHandler"],
      [method |-> "GET", path |-> "/v1/comments/:id", handler |-> "displayReviewHandler"],
      [method |-> "PATCH", path |-> "/v1/comments/:id", handler |-> "updateReviewHandler"],
      [method |-> "DELETE", path |-> "/v1/comments/:id", handler |-> "deleteReviewHandler"]>>

\* httprouter.New(): no route bound, routes() at its first registration
NewRouter == [bound |-> {}, next |-> 1, status |-> "building"]

\* router.HandlerFunc(method, path, handler): httprouter binds the pair, and
\* panics when a handle is already registered for the method and path
HandlerFunc(rt, route) ==
    IF \E b \in rt.bound : b.method = route.method /\ b.path = route.path
    THEN [rt EXCEPT !.status = "panic: a handle is already registered for path"]
    ELSE [rt EXCEPT !.bound = @ \cup {route}, !.next = @ + 1]

\* one statement of routes(): the next registration, or the return of the
\* router once every registration is made
routes ==
    /\ router.status = "building"
    /\ router' = IF router.next <= Len(RouteTable)
                 THEN HandlerFunc(router, RouteTable[router.next])
                 ELSE [router EXCEPT !.status = "serving"]
    /\ UNCHANGED <<comments, nextId, products, reviews, incomingReviewData,
                   incomingProductData, req, last>>

NoCall == [op |-> "none"]

Init ==
    /\ comments = {}
    /\ nextId = 1
    /\ products = {}
    /\ reviews = {}
    /\ incomingReviewData = [ProductID |-> Nil, Author |-> Nil, Rating |-> Nil,
                             ReviewText |-> Nil]
    /\ incomingProductData = [Content |-> Nil, Author |-> Nil]
    /\ req = [r \in Requests |-> Idle]
    /\ last = NoCall
    /\ router = NewRouter

\* the handlers of the product routes, one goroutine per request
ProductHandlers ==
    \E r \in Requests :
        \/ createProductHandler(r)
        \/ displayProductHandler(r)
        \/ deleteProductHandler(r)
        \/ updateProductGet(r)
        \/ updateProductDecode(r)
        \/ updateProductWrite(r)
        \/ listProductHandler(r)

\* the handlers of the review routes, one goroutine per request
ReviewHandlers ==
    \E r \in Requests :
        \/ createReviewDecode(r)
        \/ createReviewCheck(r)
        \/ createReviewInsert(r)
        \/ displayReviewHandler(r)
        \/ updateReviewGet(r)
        \/ updateReviewWrite(r)
        \/ deleteReviewHandler(r)
        \/ listReviewHandler(r)

Next == ProductHandlers \/ ReviewHandlers

Spec == Init /\ [][Next]_vars

\* the product routes alone
SpecProducts == Init /\ [][ProductHandlers]_vars

\* the review routes, over rows the product routes create and delete
NextReviews ==
    \/ ReviewHandlers
    \/ \E r \in Requests : createProductHandler(r) \/ deleteProductHandler(r)

SpecReviews == Init /\ [][NextReviews]_vars


\* the stores and the list handlers, called one at a time by any caller
NextStore ==
    \/ callInsertProduct
    \/ callGetProduct
    \/ callUpdateProduct
    \/ callDeleteProduct
    \/ callInsertReview
    \/ callGetReview
    \/ callUpdateReview
    \/ callDeleteReview
    \/ callListProducts
    \/ callListReviews

SpecStore == Init /\ [][NextStore]_vars


\* pages and page sizes the list callers ask for
MaxListPage == 3

MaxListPageSize == 2

\* content and author search terms of a list call: none, or one word
ListTerms == {<<"", "">>, <<"b", "">>, <<"", "x">>}

\* filters that passed ValidateFilters in a list handler
GetAllFilters(safelist) ==
    [Page : 1..MaxListPage, PageSize : 1..MaxListPageSize, Sort : safelist,
     SortSafeList : {safelist}]

\* a call of GetAllProducts / GetAllReviews and everything it returns
GetAllCall(op, content, author, f, res) ==
    /\ comments' = res.tbl
    /\ nextId' = res.seq
    /\ last' = [op |-> op, arg |-> [content |-> content, author |-> author, f |-> f],
                err |-> res.err, stmts |-> res.stmts, ent |-> res.ent,
                metadata |-> res.metadata, totalRecords |-> res.totalRecords,
                query |-> res.query]
    /\ UNCHANGED <<products, reviews, incomingReviewData, incomingProductData, req,
                   router>>

callGetAllProducts ==
    \E t \in ListTerms, f \in GetAllFilters(ProductSortSafeList) :
        GetAllCall("GetAllProducts", t[1], t[2], f,
                   GetAllProducts(comments, nextId, t[1], t[2], f))

callGetAllReviews ==
    \E t \in ListTerms, f \in GetAllFilters(ReviewSortSafeList) :
        GetAllCall("GetAllReviews", t[1], t[2], f,
                   GetAllReviews(comments, nextId, t[1], t[2], f))

\* the list calls over the tables that inserts and deletes leave
NextGetAll ==
    \/ callInsertProduct
    \/ callInsertReview
    \/ callDeleteProduct
    \/ callDeleteReview
    \/ callGetAllProducts
    \/ callGetAllReviews

SpecGetAll == Init /\ [][NextGetAll]_vars

(* ------- store calls under their context (context.WithTimeout, 3 s) ------ *)

\* ctx.Err() once the deadline of the call's context has passed
CtxDeadlineExceeded == "context deadline exceeded"

\* the calls a caller makes: each method of the two stores, with an argument
TimedCalls ==
    {[op |-> "InsertProduct", arg |-> [ZeroProduct EXCEPT !.Content = "a", !.Author = "x"]],
     [op |-> "InsertReview", arg |-> [ZeroReview EXCEPT !.Content = "a", !.Author = "x"]],
     [op |-> "UpdateProduct",
      arg |-> [ZeroProduct EXCEPT !.ID = 1, !.Content = "b", !.Author = "y"]],
     [op |-> "UpdateReview",
      arg |-> [ZeroReview EXCEPT !.ID = 1, !.Content = "b", !.Author = "y"]],
     [op |-> "GetAllProducts",
      arg |-> [Page |-> 1, PageSize |-> 2, Sort |-> <<"id">>,
               SortSafeList |-> ProductSortSafeList]],
     [op |-> "GetAllReviews",
      arg |-> [Page |-> 1, PageSize |-> 2, Sort |-> <<"author">>,
               SortSafeList |-> ReviewSortSafeList]]}
        \cup [op : {"GetProduct", "GetReview", "DeleteProduct", "DeleteReview"},
              arg : {0, 1}]

\* what the method returns when the database answers the statement
StoreResult(tbl, seq, call) ==
    CASE call.op = "InsertProduct" -> InsertProduct(tbl, seq, call.arg)
      [] call.op = "GetProduct" -> GetProduct(tbl, seq, call.arg)
      [] call.op = "UpdateProduct" -> UpdateProduct(tbl, seq, call.arg)
      [] call.op = "DeleteProduct" -> DeleteProduct(tbl, seq, call.arg)
      [] call.op = "GetAllProducts" -> GetAllProducts(tbl, seq, "", "", call.arg)
      [] call.op = "InsertReview" -> InsertReview(tbl, seq, call.arg)
      [] call.op = "GetReview" -> GetReview(tbl, seq, call.arg)
      [] call.op = "UpdateReview" -> UpdateReview(tbl, seq, call.arg)
      [] call.op = "DeleteReview" -> DeleteReview(tbl, seq, call.arg)
      [] call.op = "GetAllReviews" -> GetAllReviews(tbl, seq, "", "", call.arg)

Returned(call, err) == [pc |-> "store:returned", op |-> call.op, err |-> err]

\* the method is called: it returns at once when it issues no statement
\* (id < 1), and otherwise creates its context and hands the statement to
\* QueryRowContext / ExecContext / QueryContext
storeBegin(r) ==
    /\ req[r].pc \in {"idle", "store:returned"}
    /\ \E call \in TimedCalls :
         LET res == StoreResult(comments, nextId, call)
         IN  req' = [req EXCEPT ![r] =
                        IF res.stmts = <<>>
                        THEN Returned(call, res.err)
                        ELSE [pc |-> "store:wait", call |-> call, done |-> FALSE]]
    /\ UNCHANGED <<comments, nextId, products, reviews, incomingReviewData,
                   incomingProductData, last, router>>

\* the database answers before the deadline: the method returns its result
storeAnswer(r) ==
    /\ req[r].pc = "store:wait"
    /\ ~req[r].done
    /\ LET res == StoreResult(comments, nextId, req[r].call)
       IN  /\ Bounded(res)
           /\ comments' = res.tbl
           /\ nextId' = res.seq
           /\ req' = [req EXCEPT ![r] = Returned(req[r].call, res.err)]
    /\ UNCHANGED <<products, reviews, incomingReviewData, incomingProductData, last,
                   router>>

\* the statement run under context.Background(): no timer, ctx.Done() is
\* never closed
ctxWithoutDeadline(r) ==
    /\ req[r].pc = "store:wait"
    /\ FALSE
    /\ UNCHANGED vars

\* three seconds after WithTimeout the timer of the context closes ctx.Done()
ctxDeadline(r) ==
    /\ req[r].pc = "store:wait"
    /\ ~req[r].done
    /\ req' = [req EXCEPT ![r].done = TRUE]
    /\ UNCHANGED <<comments, nextId, products, reviews, incomingReviewData,
                   incomingProductData, last, router>>

\* the pending call sees ctx.Done() and returns ctx.Err(); the statement it
\* gave up on has taken effect in the database or has not
storeCancelled(r) ==
    /\ req[r].pc = "store:wait"
    /\ req[r].done
    /\ LET res == StoreResult(comments, nextId, req[r].call)
       IN  \/ UNCHANGED <<comments, nextId>>
           \/ /\ Bounded(res)
              /\ comments' = res.tbl
              /\ nextId' = res.seq
    /\ req' = [req EXCEPT ![r] = Returned(req[r].call, CtxDeadlineExceeded)]
    /\ UNCHANGED <<products, reviews, incomingReviewData, incomingProductData, last,
                   router>>

NextTimeout ==
    \E r \in Requests :
        \/ storeBegin(r)
        \/ storeAnswer(r)
        \/ ctxDeadline(r)
        \/ storeCancelled(r)

\* the runtime fires the timer of a context and wakes the call waiting on it;
\* nothing makes the database answer
SpecTimeout ==
    /\ Init
    /\ [][NextTimeout]_vars
    /\ \A r \in Requests : WF_vars(ctxDeadline(r)) /\ WF_vars(storeCancelled(r))

\* the process builds its route table while other clients of the database
\* insert and delete rows
NextRoutes ==
    \/ routes
    \/ callInsertProduct
    \/ callInsertReview
    \/ callDeleteProduct
    \/ callDeleteReview

SpecRoutes == Init /\ [][NextRoutes]_vars

\* The same callers over a database whose tables products and reviews were
\* filled by other means (no statement of the stores names them): one product
\* and one review of it, as the schema's constraints allow.
InitSchema ==
    /\ comments = {}
    /\ nextId = 1
    /\ products = {[product_id |-> 1]}
    /\ reviews = {[review_id |-> 1, product_id |-> 1, rating |-> 5]}
    /\ incomingReviewData = [ProductID |-> Nil, Author |-> Nil, Rating |-> Nil,
                             ReviewText |-> Nil]
    /\ incomingProductData = [Content |-> Nil, Author |-> Nil]
    /\ req = [r \in Requests |-> Idle]
    /\ last = NoCall
    /\ router = NewRouter

SpecSchema == InitSchema /\ [][NextStore]_vars

(* ================================ claims ================================= *)

\* C1: an update succeeds only if the version the caller last read equals the
\* stored version at the moment of the write (of two updates that read the same
\* version, at most one succeeds). Stated of every updateProductHandler about
\* to merge and write: if its run ends in StatusOK, the row still has the
\* version GetProduct gave it.
C1_UpdateSucceedsOnlyOnVersionRead ==
    \A r \in Requests :
        req[r].pc = "updateProduct:merge" =>
            LET o == updateProductWriteOutcome(comments, nextId,
                                               incomingProductData, req[r])
            IN  o.status = "StatusOK" =>
                    \A row \in RowsById(comments, req[r].read.ID) :
                        row.version = req[r].read.Version

UpdateOps == {"UpdateProduct", "UpdateReview"}

C3_UpdateOfMissingRowIsNotFound ==
    \A r \in Requests :
        (req[r].pc = "updateReview:readJSON"
            /\ RowsById(comments, req[r].review.ID) = {}) =>
            \A body \in UpdateReviewBodies :
                LET o == updateReviewWriteOutcome(comments, nextId, body, req[r])
                IN  /\ o.tbl = comments
                    /\ \A i \in DOMAIN o.calls :
                         o.calls[i].op = "UpdateReview" =>
                            /\ o.calls[i].err = ErrRecordNotFound
                            /\ o.status = "notFoundResponse"

\* C4: a create-review request whose product id does not resolve to a Product
\* when the existence check runs is answered not-found (and so never reaches
\* InsertReview). Stated of every createReviewHandler about to run the check,
\* for the product_id of its own body.
C4_CreateReviewOfMissingProductIsRejected ==
    \A r \in Requests :
        (req[r].pc = "createReview:ProductExists"
            /\ req[r].body.ProductID # Nil
            /\ RowsById(comments, Deref(req[r].body.ProductID)) = {}) =>
            createReviewCheckOutcome(comments, nextId, incomingReviewData,
                                     req[r]).status = "PRIDnotFound"

\* C5: after a successful DeleteProduct(id) no stored Review has product
\* reference id (ON DELETE CASCADE of reviews.product_id).
C5_DeleteProductRemovesItsReviews ==
    (last.op = "DeleteProduct" /\ last.err = NoErr) =>
        \A review \in reviews : review.product_id # last.arg

DeleteOps == {"DeleteProduct", "DeleteReview"}

\* C6: Delete(id) of a live id succeeds and removes exactly that row; Delete(id)
\* of an id without a live row returns ErrRecordNotFound and leaves the table
\* as it is; and an id that was handed out and has no live row never has one
\* again, so a second Delete(id) is always of the latter kind.
C6_DeleteThenNotFound ==
    [][/\ last'.op \in DeleteOps =>
            LET old == RowsById(comments, last'.arg)
            IN  IF old # {}
                THEN last'.err = NoErr /\ comments' = comments \ old
                     /\ Cardinality(old) = 1
                ELSE last'.err = ErrRecordNotFound /\ comments' = comments
       /\ \A id \in 1..MaxId :
            (id < nextId /\ RowsById(comments, id) = {}) =>
                RowsById(comments', id) = {}]_vars

C6_Witness ==
    /\ last.op = "DeleteReview"
    /\ last.err = ErrRecordNotFound
    /\ last.arg >= 1
    /\ last.arg < nextId
    /\ comments # {}

InsertOps == {"InsertProduct", "InsertReview"}

C8_RatingOutsideRangeIsRejected ==
    \A r \in Requests :
        req[r].pc = "updateReview:readJSON" =>
            \A body \in UpdateReviewBodies :
                (body # Malformed /\ body.Rating # Nil
                    /\ Deref(body.Rating) \notin 1..5) =>
                    LET o == updateReviewWriteOutcome(comments, nextId, body, req[r])
                    IN  /\ o.status = "failedValidationResponse"
                        /\ \A i \in DOMAIN o.calls : o.calls[i].op # "UpdateReview"

\* the column a sort key names
BareKey(k) == k[Len(k)]

ListSafeList(op) ==
    IF op = "listProductHandler" THEN ProductSortSafeList ELSE ReviewSortSafeList

\* C9: a list request whose sort key is outside the handler's safelist ends in
\* a validation error without a call of GetAll, and the column of every
\* ORDER BY that GetAll builds is the column of a safelist member.
C9_SortKeyOutsideSafelistIsRejected ==
    last.op \in {"listProductHandler", "listReviewHandler"} =>
        /\ last.arg.sort \notin ListSafeList(last.op) =>
              last.status = "failedValidationResponse" /\ last.calls = <<>>
        /\ \A i \in DOMAIN last.calls :
              \E k \in ListSafeList(last.op) :
                  last.calls[i].query.orderBy[1] = BareKey(k)

C9_Witness ==
    /\ last.op = "listProductHandler"
    /\ last.arg.sort = <<"id; DROP TABLE comments">>
    /\ last.status = "failedValidationResponse"
    /\ comments # {}

GetOps == {"GetProduct", "GetReview"}

\* C10: Get(id) and Delete(id) with id < 1 return ErrRecordNotFound without a
\* statement issued; Get(id) with id >= 1 returns ErrRecordNotFound when no row
\* has the id and otherwise the row that has it, with no error.
C10_GetAndDeleteById ==
    last.op \in GetOps \cup DeleteOps =>
        /\ last.arg < 1 => last.err = ErrRecordNotFound /\ last.stmts = <<>>
        /\ (last.op \in GetOps /\ last.arg >= 1) =>
              IF RowsById(comments, last.arg) = {}
              THEN last.err = ErrRecordNotFound
              ELSE /\ last.err = NoErr
                   /\ [id |-> last.ent.ID, content |-> last.ent.Content,
                       author |-> last.ent.Author, version |-> last.ent.Version]
                          \in RowsById(comments, last.arg)

C10_Witness ==
    /\ last.op = "GetReview"
    /\ last.arg < 1
    /\ last.err = ErrRecordNotFound
    /\ last.stmts = <<>>
    /\ comments # {}

\* C11: the payload decoded for a request is private to it: the value an
\* updateProductHandler about to merge finds for a field of its body is the
\* value its own body carried, under every interleaving.
C11_DecodedPayloadIsPrivate ==
    \A r \in Requests :
        req[r].pc = "updateProduct:merge" =>
            \A f \in {"Content", "Author"} :
                req[r].body[f] # Nil => incomingProductData[f] = req[r].body[f]

\* C16: a partial update changes only the fields its body names. Stated of an
\* updateProductHandler that runs alone on the row as it read it: when its run
\* ends in StatusOK, a field its body leaves out is stored as it was read.
C16_PartialUpdateKeepsOmittedFields ==
    \A r \in Requests :
        (/\ req[r].pc = "updateProduct:merge"
         /\ \A other \in Requests \ {r} : req[other].pc = "idle"
         /\ GetProduct(comments, nextId, req[r].read.ID).ent = req[r].read) =>
            LET o == updateProductWriteOutcome(comments, nextId,
                                               incomingProductData, req[r])
            IN  o.status = "StatusOK" =>
                    \A row \in RowsById(o.tbl, req[r].read.ID) :
                        /\ req[r].body.Content = Nil =>
                              row.content = req[r].read.Content
                        /\ req[r].body.Author = Nil =>
                              row.author = req[r].read.Author

\* C20: a create-review request that leaves out author, rating or review_text
\* is answered by the handler with a validation error or a bad request, and
\* makes no call of InsertReview. Stated of every createReviewHandler that
\* passed the existence check.
C20_MissingFieldsAreRejected ==
    \A r \in Requests :
        (/\ req[r].pc = "createReview:insert"
         /\ \/ req[r].body.Author = Nil
            \/ req[r].body.Rating = Nil
            \/ req[r].body.ReviewText = Nil) =>
            LET o == createReviewInsertOutcome(comments, nextId,
                                               incomingReviewData, req[r])
            IN  /\ o.status \in {"failedValidationResponse", "badRequestResponse"}
                /\ \A i \in DOMAIN o.calls : o.calls[i].op # "InsertReview"

GetAllOps == {"GetAllProducts", "GetAllReviews"}

\* rows of the table a list call with these terms is about
MatchingRows(content, author) ==
    {row \in comments : /\ content = "" \/ row.content = content
                        /\ author = "" \/ row.author = author}

\* row a comes before row b in the order a sort key asks for, id ascending
\* among rows of equal key
ComesBefore(sort, a, b) ==
    LET desc == Head(sort) = "-"
        col == sort[Len(sort)]
        ka == IF col = "id" THEN a.id ELSE TextRank(a.author)
        kb == IF col = "id" THEN b.id ELSE TextRank(b.author)
    IN  \/ ka # kb /\ (IF desc THEN ka > kb ELSE ka < kb)
        \/ ka = kb /\ a.id < b.id

\* C12: a list call with both search terms empty that the server answers
\* filters nothing: it binds limit = page_size and offset = (page - 1) *
\* page_size, and returns exactly the rows at positions offset + 1 ..
\* offset + limit of all stored rows in the requested order.
C12_EmptyTermsPaginateAllRows ==
    (last.op \in GetAllOps /\ last.err = NoErr
        /\ last.arg.content = "" /\ last.arg.author = "") =>
        LET f == last.arg.f
            lim == f.PageSize
            off == (f.Page - 1) * f.PageSize
            left == Cardinality(comments) - off
            position(row) ==
                Cardinality({x \in comments : ComesBefore(f.Sort, x, row)}) + 1
        IN  /\ last.query.args = <<"", "", lim, off>>
            /\ Len(last.ent) = (IF left < 0 THEN 0 ELSE IF left < lim THEN left ELSE lim)
            /\ \A i \in DOMAIN last.ent :
                 /\ last.ent[i] \in comments
                 /\ position(last.ent[i]) = off + i

C12_Witness ==
    /\ last.op = "GetAllProducts"
    /\ last.err = NoErr
    /\ last.arg.content = ""
    /\ last.arg.author = ""
    /\ last.arg.f.Page = 2
    /\ last.arg.f.PageSize = 1
    /\ last.arg.f.Sort = <<"-", "author">>
    /\ Len(last.ent) = 1
    /\ Cardinality(comments) = 2

\* C13: the metadata of a list call is all zero when the count it scanned is 0,
\* and otherwise has current_page = page, page_size = pageSize, first_page = 1,
\* total_records = the count and last_page = ceil(count / pageSize); 95 and 100
\* records at page size 10 both give last_page 10.
C13_MetadataOfCount ==
    /\ (last.op \in GetAllOps /\ last.err = NoErr) =>
          LET f == last.arg.f
              m == last.metadata
              total == last.totalRecords
          IN  IF total = 0
              THEN m = [CurrentPage |-> 0, PageSize |-> 0, FirstPage |-> 0,
                        LastPage |-> 0, TotalRecords |-> 0]
              ELSE /\ m.CurrentPage = f.Page
                   /\ m.PageSize = f.PageSize
                   /\ m.FirstPage = 1
                   /\ m.TotalRecords = total
                   /\ (m.LastPage - 1) * f.PageSize < total
                   /\ total <= m.LastPage * f.PageSize
    /\ calculateMetaData(95, 1, 10).LastPage = 10
    /\ calculateMetaData(100, 1, 10).LastPage = 10

C13_Witness ==
    /\ last.op = "GetAllReviews"
    /\ last.err = NoErr
    /\ last.totalRecords = 2
    /\ last.arg.f.PageSize = 1
    /\ last.arg.f.Page = 2
    /\ last.metadata.LastPage = 2

\* C17: the total_records of a list call the server answers is the number of
\* rows matching its search terms, whatever valid page is asked for.
C17_TotalRecordsCountsMatches ==
    (last.op \in GetAllOps /\ last.err = NoErr) =>
        last.metadata.TotalRecords
            = Cardinality(MatchingRows(last.arg.content, last.arg.author))

RECURSIVE PagesThrough(_, _, _, _, _, _)
\* what fetching pages 1..n with one filter, sort key and page size returns,
\* page after page
PagesThrough(op, content, author, sort, size, n) ==
    IF n = 0 THEN <<>>
    ELSE LET f == [Page |-> n, PageSize |-> size, Sort |-> sort,
                   SortSafeList |-> ListSafeList(IF op = "GetAllProducts"
                                                 THEN "listProductHandler"
                                                 ELSE "listReviewHandler")]
             res == IF op = "GetAllProducts"
                    THEN GetAllProducts(comments, nextId, content, author, f)
                    ELSE GetAllReviews(comments, nextId, content, author, f)
         IN  PagesThrough(op, content, author, sort, size, n - 1) \o res.ent

\* C18: on a table that does not change, pages 1..last_page of a list call
\* with fixed terms, sort key and page size hold every matching row exactly
\* once, each row before every row that follows it in the requested order,
\* rows of equal sort key by ascending id. Stated of the table and of the
\* terms, sort key and page size of the list call made last.
C18_PagesCoverMatchesInTotalOrder ==
    (last.op \in GetAllOps /\ last.err = NoErr) =>
        LET content == last.arg.content
            author == last.arg.author
            sort == last.arg.f.Sort
            size == last.arg.f.PageSize
            count == Cardinality(MatchingRows(content, author))
            lastPage == (count + size - 1) \div size
            all == PagesThrough(last.op, content, author, sort, size, lastPage)
        IN  /\ Len(all) = count
            /\ {all[i] : i \in DOMAIN all} = MatchingRows(content, author)
            /\ \A i, j \in DOMAIN all : i < j => ComesBefore(sort, all[i], all[j])
            /\ last.ent = SubSeq(all, (last.arg.f.Page - 1) * size + 1,
                                 IF last.arg.f.Page * size < count
                                 THEN last.arg.f.Page * size ELSE count)

C18_Witness ==
    /\ last.op = "GetAllProducts"
    /\ last.err = NoErr
    /\ last.arg.f.Sort = <<"author">>
    /\ last.arg.f.PageSize = 1
    /\ last.arg.f.Page = 2
    /\ Len(last.ent) = 1
    /\ \E a, b \in MatchingRows(last.arg.content, last.arg.author) :
          a.id < b.id /\ a.author = b.author /\ last.ent[1] = b

\* C14: every store call returns: a call waiting for the database is followed
\* by its return, and a call whose deadline has passed returns next, with the
\* deadline fault, whether or not the database ever answers.
C14_StoreCallsTerminate ==
    /\ \A r \in Requests :
          (req[r].pc = "store:wait") ~> (req[r].pc = "store:returned")
    /\ [][\A r \in Requests :
            (req[r].pc = "store:wait" /\ req[r].done /\ req'[r] # req[r]) =>
                req'[r] = [pc |-> "store:returned", op |-> req[r].call.op,
                           err |-> CtxDeadlineExceeded]]_vars

C14_Witness ==
    /\ req[1].pc = "store:returned"
    /\ req[1].op = "InsertReview"
    /\ req[1].err = CtxDeadlineExceeded
    /\ req[2].pc = "store:wait"
    /\ req[2].call.op = "GetAllProducts"
    /\ req[2].done

\* C15: no orphan Review: a Review is stored only while the Product it refers
\* to is live, so InsertReview succeeds only if the product of the review
\* exists when the row is written.
C15_NoOrphanReview ==
    [][(last'.op = "InsertReview" /\ last'.err = NoErr) =>
          ProductExists(comments, nextId, last'.arg.ProductID).ent]_vars

ReviewWrites == {"InsertReview", "UpdateReview", "DeleteReview"}

\* C19: the two stores work on separate collections: a write through the
\* Review Store leaves what GetProduct returns for every id as it was.
C19_ReviewWritesLeaveProducts ==
    [][last'.op \in ReviewWrites =>
          \A id \in StoreIds :
              LET before == GetProduct(comments, nextId, id)
                  after == GetProduct(comments', nextId', id)
              IN  before.err = after.err /\ before.ent = after.ent]_vars

\* C21: under every order in which concurrent callers' inserts, updates and
\* deletes reach the table, whatever version the entity handed to an update
\* carries: a row starts at version 1, a step in which an update of the row
\* succeeds adds exactly 1 to its version, and no other step changes it. So
\* the version of a live row is at least 1, never decreases, and is 1 plus
\* the number of successful updates of the row since its insert.
C21_VersionCountsUpdates ==
    [][\A id \in 1..MaxId :
          LET old == RowsById(comments, id)
              new == RowsById(comments', id)
              applied == IF /\ last'.op \in UpdateOps
                            /\ last'.err = NoErr
                            /\ last'.arg.ID = id
                         THEN 1 ELSE 0
          IN  /\ Cardinality(new) <= 1
              /\ \A row \in new : row.version >= 1
              /\ old = {} => \A row \in new : row.version = 1
              /\ \A a \in old, b \in new : b.version = a.version + applied]_vars

C21_Witness ==
    /\ last.op = "UpdateProduct"
    /\ last.err = NoErr
    /\ last.arg.ID = 2
    /\ last.arg.Version = 1
    /\ last.ent.Version = MaxVersion
    /\ \E row \in comments : row.id = 2 /\ row.version = MaxVersion
    /\ \E row \in comments : row.id = 1 /\ row.version = 2

EntityHandlers ==
    {"listProductHandler", "createProductHandler", "displayProductHandler",
     "updateProductHandler", "deleteProductHandler",
     "listReviewHandler", "createReviewHandler", "displayReviewHandler",
     "updateReviewHandler", "deleteReviewHandler"}

\* C22: building the route table binds every method and path to at most one
\* handler, so routes() does not panic, and once it has returned each of the
\* five operations of each entity has a route of its own.
C22_RouteTableIsBuilt ==
    /\ router.status \in {"building", "serving"}
    /\ \A a, b \in router.bound :
          (a.method = b.method /\ a.path = b.path) => a = b
    /\ router.status = "serving" =>
          \A h \in EntityHandlers : \E b \in router.bound : b.handler = h

====
